---- MODULE Spec2Model ----
(***************************************************************************)
(* monitor-brightness (src/main.rs): a command-line program that reads and *)
(* sets a monitor's brightness over DDC/CI.  One invocation resolves the   *)
(* I2C device of the focused output (or takes the path it was given),      *)
(* opens it, reads the brightness VCP feature and, for set-brightness,     *)
(* writes the new raw value.                                               *)
(*                                                                         *)
(* Strings the program inspects (output names, directory entries, the      *)
(* brightness token) are sequences of one-character strings, so that       *)
(* starts_with, ends_with, format! and parse are computed as the code      *)
(* computes them.  f32 values are modelled exactly: a finite value is      *)
(* m * 2^e with m < 2^24, and every operation rounds to nearest, ties to   *)
(* even, as IEEE 754 single precision does.                                *)
(***************************************************************************)
EXTENDS Integers, Sequences, FiniteSets, TLC

----------------------------------------------------------------------------
(* Integer widths *)

U8_MAX == 255

U16_MAX == 65535

I16_MAX == 32767

I16_MIN == -32768

\* number of significand bits of an f32
F32_PRECISION == 24

Pow2(n) == 2 ^ n

RECURSIVE BitLen(_)
\* number of bits of a natural number (0 for 0)
BitLen(n) == IF n = 0 THEN 0 ELSE 1 + BitLen(n \div 2)

----------------------------------------------------------------------------
(* f32 arithmetic, as far as main uses it: integer -> f32 conversions of   *)
(* values below 2^24 (exact), one division, one multiplication, round(),   *)
(* and the saturating `as u16` / `as i16` casts.                           *)

F32Nan == [k |-> "nan", m |-> 0, e |-> 0]

F32Inf == [k |-> "inf", m |-> 0, e |-> 0]

F32Fin(m, e) == [k |-> "fin", m |-> m, e |-> e]

\* round an exact quotient/product given as: kept bits q, dropped part rem
\* out of a weight `half * 2`, to nearest, ties to even; e is q's exponent
RoundNearestEven(q, rem, half, e) ==
  LET up == rem > half \/ (rem = half /\ q % 2 = 1)
      q1 == IF up THEN q + 1 ELSE q
  IN  IF q1 = Pow2(F32_PRECISION)
        THEN F32Fin(Pow2(F32_PRECISION - 1), e + 1)
        ELSE F32Fin(q1, e)

RECURSIVE LongDiv(_, _, _, _)
\* n further quotient bits of r / b (r < b), appended to acc
LongDiv(r, b, n, acc) ==
  IF n = 0 THEN [q |-> acc, r |-> r]
  ELSE LET r2  == 2 * r
           bit == IF r2 >= b THEN 1 ELSE 0
       IN  LongDiv(r2 - bit * b, b, n - 1, 2 * acc + bit)

\* `a as f32 / b as f32` for integers 0 <= a, b < 2^24 (both exact in f32)
DivF32(a, b) ==
  IF b = 0 THEN (IF a = 0 THEN F32Nan ELSE F32Inf)
  ELSE IF a = 0 THEN F32Fin(0, 0)
  ELSE LET la == BitLen(a)
           lb == BitLen(b)
           \* scale so that bb <= aa < 2 * bb; a / b = (aa / bb) * 2^sh
           s0 == la - lb
           a0 == IF s0 < 0 THEN a * Pow2(-s0) ELSE a
           b0 == IF s0 > 0 THEN b * Pow2(s0) ELSE b
           lt == a0 < b0
           aa == IF lt THEN 2 * a0 ELSE a0
           sh == IF lt THEN s0 - 1 ELSE s0
           d  == LongDiv(aa - b0, b0, F32_PRECISION - 1, 1)
       IN  RoundNearestEven(d.q, 2 * d.r, b0, sh - (F32_PRECISION - 1))

\* `x * (n as f32)` for an f32 x >= 0 and an integer 0 <= n < 2^16
MulF32(x, n) ==
  IF x.k = "nan" THEN F32Nan
  ELSE IF x.k = "inf" THEN (IF n = 0 THEN F32Nan ELSE F32Inf)
  ELSE LET LIMB_BITS == 12   \* the significand is multiplied in two limbs
           B  == Pow2(LIMB_BITS)
           lo == (x.m % B) * n
           H  == (x.m \div B) * n + lo \div B
           L  == lo % B
           \* the exact product is H * B + L; d bits of it are dropped
           d  == BitLen(H) - LIMB_BITS
       IN  IF d <= 0 THEN F32Fin(H * B + L, x.e)
           ELSE IF d <= LIMB_BITS
             THEN RoundNearestEven(H * Pow2(LIMB_BITS - d) + L \div Pow2(d),
                                   L % Pow2(d), Pow2(d - 1), x.e + d)
             ELSE RoundNearestEven(H \div Pow2(d - LIMB_BITS),
                                   (H % Pow2(d - LIMB_BITS)) * B + L,
                                   Pow2(d - 1), x.e + d)

\* f32::round of a finite x >= 0: nearest integer, halves away from zero
RoundHalfAway(x) ==
  IF x.e >= 0 THEN x.m * Pow2(x.e)
  ELSE LET k == -x.e
       IN  IF k > F32_PRECISION THEN 0
           ELSE (x.m \div Pow2(k))
                + (IF 2 * (x.m % Pow2(k)) >= Pow2(k) THEN 1 ELSE 0)

\* `x.round() as u16`: the cast saturates, NaN becomes 0
RoundAsU16(x) ==
  IF x.k = "nan" THEN 0
  ELSE IF x.k = "inf" THEN U16_MAX
  ELSE LET r == RoundHalfAway(x) IN IF r > U16_MAX THEN U16_MAX ELSE r

\* `x.round() as i16`: the cast saturates, NaN becomes 0
RoundAsI16(x) ==
  IF x.k = "nan" THEN 0
  ELSE IF x.k = "inf" THEN I16_MAX
  ELSE LET r == RoundHalfAway(x) IN IF r > I16_MAX THEN I16_MAX ELSE r

----------------------------------------------------------------------------
(* Strings *)

StartsWith(s, prefix) ==
  Len(s) >= Len(prefix) /\ SubSeq(s, 1, Len(prefix)) = prefix

EndsWith(s, suffix) ==
  Len(s) >= Len(suffix) /\ SubSeq(s, Len(s) - Len(suffix) + 1, Len(s)) = suffix

Digits == <<"0", "1", "2", "3", "4", "5", "6", "7", "8", "9">>

\* the value of a decimal digit character, -1 for any other character
DigitValue(c) ==
  IF \E d \in 1..10 : Digits[d] = c
    THEN (CHOOSE d \in 1..10 : Digits[d] = c) - 1
    ELSE -1

RECURSIVE ParseDigits(_, _, _)
\* core::num from_str_radix for i16: digits folded into acc, away from zero
\* in the direction of sign, with every step overflow-checked
ParseDigits(s, sign, acc) ==
  IF s = <<>> THEN [ok |-> TRUE, v |-> acc]
  ELSE LET d == DigitValue(Head(s))
           n == acc * 10 + sign * d
       IN  IF d < 0 \/ n > I16_MAX \/ n < I16_MIN
             THEN [ok |-> FALSE, v |-> 0]
             ELSE ParseDigits(Tail(s), sign, n)

\* a parse whose failure is replaced by 0 instead of ending the invocation
ParseI16OrZero(s) ==
  LET parsed == IF s = <<>> \/ (Head(s) \in {"+", "-"} /\ Len(s) = 1)
                  THEN [ok |-> FALSE, v |-> 0]
                  ELSE IF Head(s) \in {"+", "-"}
                    THEN ParseDigits(Tail(s), IF Head(s) = "-" THEN -1 ELSE 1, 0)
                    ELSE ParseDigits(s, 1, 0)
  IN  IF parsed.ok THEN parsed ELSE [ok |-> TRUE, v |-> 0]

\* str::parse::<i16>(): an optional sign, then at least one digit
ParseI16(s) ==
  IF s = <<>> THEN [ok |-> FALSE, v |-> 0]
  ELSE IF Head(s) \in {"+", "-"}
    THEN IF Len(s) = 1 THEN [ok |-> FALSE, v |-> 0]
         ELSE ParseDigits(Tail(s), IF Head(s) = "-" THEN -1 ELSE 1, 0)
    ELSE ParseDigits(s, 1, 0)

----------------------------------------------------------------------------
(* Value codec: the arithmetic of main's two subcommands *)

BRIGHTNESS_VCP_CODE == 16

\* the two bytes of each quantity taken in the wrong order
value_bytes_swapped(value) ==
  << (value.sl * 256 + value.sh) % (U16_MAX + 1),
     (value.ml * 256 + value.mh) % (U16_MAX + 1) >>

\* value_to_current_and_max: (sh * 256 + sl, mh * 256 + ml), in u16
value_to_current_and_max(value) ==
  << (value.sh * 256 + value.sl) % (U16_MAX + 1),
     (value.mh * 256 + value.ml) % (U16_MAX + 1) >>

\* get-brightness: (current as f32 / max as f32 * 100.0).round() as u16
PercentageU16(current_value, max_value) ==
  RoundAsU16(MulF32(DivF32(current_value, max_value), 100))

\* set-brightness: (current as f32 / max as f32 * 100.0).round() as i16
PercentageI16(current_value, max_value) ==
  RoundAsI16(MulF32(DivF32(current_value, max_value), 100))

\* i16::clamp(0, 100)
Clamp(v, lo, hi) == IF v < lo THEN lo ELSE IF v > hi THEN hi ELSE v

\* `a + b` on i16: out of range, a build with overflow checks panics and a
\* build without them wraps
AddI16(a, b, overflow_checks) ==
  LET sum == a + b
  IN  IF sum >= I16_MIN /\ sum <= I16_MAX THEN [ok |-> TRUE, v |-> sum]
      ELSE IF overflow_checks THEN [ok |-> FALSE, v |-> 0]
      ELSE [ok |-> TRUE,
            v |-> ((sum - I16_MIN) % (U16_MAX + 1)) + I16_MIN]

\* whether the token is a relative change
IsRelative(value_str) ==
  StartsWith(value_str, <<"+">>) \/ StartsWith(value_str, <<"-">>)

\* target_percentage: [ok, cause, v]
TargetPercentage(value_str, current_percentage, overflow_checks) ==
  LET parsed == ParseI16(value_str)
  IN  IF ~parsed.ok THEN [ok |-> FALSE, cause |-> "parse", v |-> 0]
      ELSE IF IsRelative(value_str)
        THEN LET new_value == AddI16(current_percentage, parsed.v, overflow_checks)
             IN  IF new_value.ok
                   THEN [ok |-> TRUE, cause |-> "none",
                         v |-> Clamp(new_value.v, 0, 100)]
                   ELSE [ok |-> FALSE, cause |-> "overflow", v |-> 0]
        ELSE [ok |-> TRUE, cause |-> "none", v |-> Clamp(parsed.v, 0, 100)]

\* the conversion without .round(): the cast truncates
AbsoluteValueTruncated(target_percentage, max_value) ==
  LET x == MulF32(DivF32(target_percentage, 100), max_value)
  IN  IF x.e >= 0 THEN x.m * Pow2(x.e)
      ELSE IF -x.e > F32_PRECISION THEN 0
      ELSE x.m \div Pow2(-x.e)

\* ((target_percentage as f32 / 100.0) * max_value as f32).round() as u16
AbsoluteValue(target_percentage, max_value) ==
  RoundAsU16(MulF32(DivF32(target_percentage, 100), max_value))

----------------------------------------------------------------------------
(* Output resolver: get_i2c_dev_by_output over a model of /sys/class/drm.  *)
(* An output directory is [readable, children, ddc, target, i2c_dev,       *)
(* i2c_dev_entries]: children in directory order; ddc is "absent", "dir",  *)
(* "link" (a symlink whose target exists) or "dangling"; target is the     *)
(* link's text; i2c_dev says whether ddc/i2c-dev exists.                   *)

NoPath == <<>>

SysClassDrm ==
  <<"/", "s", "y", "s", "/", "c", "l", "a", "s", "s", "/", "d", "r", "m", "/">>

Dev == <<"/", "d", "e", "v", "/">>

RECURSIVE FirstEndingWith(_, _, _)
\* read_dir().find(|d| path.ends_with(output)): the first index >= i of the
\* drm entries whose path ends with output, 0 if none
FirstEndingWith(tree, i, output) ==
  IF i > Len(tree) THEN 0
  ELSE IF EndsWith(SysClassDrm \o tree[i].name, output) THEN i
  ELSE FirstEndingWith(tree, i + 1, output)

RECURSIVE FirstBus(_, _)
\* the first index >= i of the children whose name starts with "i2c-", 0 if none
FirstBus(children, i) ==
  IF i > Len(children) THEN 0
  ELSE IF StartsWith(children[i], <<"i", "2", "c", "-">>) THEN i
  ELSE FirstBus(children, i + 1)

RECURSIVE LastSlash(_, _)
\* the index of the last "/" of path at or before i, 0 if none
LastSlash(path, i) ==
  IF i = 0 THEN 0
  ELSE IF path[i] = "/" THEN i
  ELSE LastSlash(path, i - 1)

\* Path::file_name of a path without trailing separators: the last
\* component, or none when the path ends in ".."
FileName(path) ==
  LET last == SubSeq(path, LastSlash(path, Len(path)) + 1, Len(path))
  IN  IF last = <<".", ".">> THEN NoPath ELSE last

\* the /sys/class/drm entry the output is resolved to: the first whose path
\* ends with the output's name (0: none)
FindOutputPath(tree, output) == FirstEndingWith(tree, 1, output)

\* AMD: the first child of the output directory named i2c-N
AmdSubdirectory(dir) ==
  LET n == IF dir.readable THEN FirstBus(dir.children, 1) ELSE 0
  IN  IF n = 0 THEN NoPath ELSE Dev \o dir.children[n]

\* AMD: the `ddc` symlink, by the last component of its target
AmdSymlink(dir) ==
  IF dir.ddc = "link" /\ FileName(dir.target) # NoPath
    THEN Dev \o FileName(dir.target)
    ELSE NoPath

\* Intel: the first entry of ddc/i2c-dev
IntelNested(dir) ==
  IF dir.ddc \in {"dir", "link"} /\ dir.i2c_dev /\ dir.i2c_dev_entries # <<>>
    THEN Dev \o Head(dir.i2c_dev_entries)
    ELSE NoPath

\* the strategies with the Intel layout tried first
TryStrategiesIntelFirst(dir) ==
  IF IntelNested(dir) # NoPath THEN IntelNested(dir)
  ELSE IF AmdSubdirectory(dir) # NoPath THEN AmdSubdirectory(dir)
  ELSE AmdSymlink(dir)

\* the three strategies in the order the code tries them
TryStrategies(dir) ==
  IF AmdSubdirectory(dir) # NoPath THEN AmdSubdirectory(dir)
  ELSE IF AmdSymlink(dir) # NoPath THEN AmdSymlink(dir)
  ELSE IntelNested(dir)

\* the sysfs accesses the strategies make on an output directory
StrategyReads(dir) ==
  <<"read_dir output">>
  \o (IF AmdSubdirectory(dir) # NoPath THEN <<>>
      ELSE <<"exists ddc">>
        \o (IF dir.ddc \in {"dir", "link"} THEN <<"read_link ddc">> ELSE <<>>)
        \o (IF AmdSymlink(dir) # NoPath THEN <<>>
            ELSE <<"exists ddc/i2c-dev">>
              \o (IF dir.ddc \in {"dir", "link"} /\ dir.i2c_dev
                    THEN <<"read_dir ddc/i2c-dev">> ELSE <<>>)))

\* whether the output is an embedded DisplayPort panel
IsEmbedded(output) == StartsWith(output, <<"e", "D", "P">>)

\* the resolver with the eDP check made after the output's directory is found
get_i2c_dev_by_output_late_check(output, tree) ==
  LET n == FindOutputPath(tree, output)
  IN  IF n = 0
        THEN [cause |-> "no_output", path |-> NoPath, reads |-> <<"read_dir drm">>]
      ELSE IF IsEmbedded(output)
        THEN [cause |-> "edp", path |-> NoPath, reads |-> <<"read_dir drm">>]
      ELSE LET device_path == TryStrategies(tree[n].dir)
           IN  [cause |-> IF device_path = NoPath THEN "no_device" ELSE "none",
                path  |-> device_path,
                reads |-> <<"read_dir drm">> \o StrategyReads(tree[n].dir)]

\* get_i2c_dev_by_output: [cause, path, reads]; cause "none" is a return,
\* "edp" is exit(1), "no_output" and "no_device" are the two panics
get_i2c_dev_by_output(output, tree) ==
  IF IsEmbedded(output)
    THEN [cause |-> "edp", path |-> NoPath, reads |-> <<>>]
  ELSE LET n == FindOutputPath(tree, output)
       IN  IF n = 0
             THEN [cause |-> "no_output", path |-> NoPath,
                   reads |-> <<"read_dir drm">>]
           ELSE LET device_path == TryStrategies(tree[n].dir)
                IN  [cause |-> IF device_path = NoPath THEN "no_device" ELSE "none",
                     path  |-> device_path,
                     reads |-> <<"read_dir drm">> \o StrategyReads(tree[n].dir)]

----------------------------------------------------------------------------
(* State.  Two invocations of the program may run side by side against the *)
(* same monitor; each has its own locals, indexed by the invocation.       *)

Procs == {1, 2}

VARIABLES
  focused,            \* the compositor's focused output (NoPath: none is focused)
  drm,                \* /sys/class/drm: a sequence of [name, dir]
  monitor,            \* the monitor's brightness VCP register [sh, sl, mh, ml]
  bus,                \* the DDC/CI transactions made so far [proc, op, value, ok]
  args,               \* per invocation: [i2c_path, subcommand, value_str]
  pc,                 \* per invocation: where main stands
  failure,            \* per invocation: why it panicked or exited ("none": it has not)
  active_output,      \* main's locals, per invocation
  i2c_path,
  current_value,
  max_value,
  current_percentage,
  target_percentage,
  absolute_value,
  stdout,             \* the percentages printed, one per line of output
  ipc_calls,          \* calls of get_active_output
  fs_log,             \* sysfs accesses made
  opened              \* from_i2c_device calls [path, ok]

vars ==
  << focused, drm, monitor, bus, args, pc, failure, active_output, i2c_path,
     current_value, max_value, current_percentage, target_percentage,
     absolute_value, stdout, ipc_calls, fs_log, opened >>

env == << focused, drm >>

locals ==
  << active_output, i2c_path, current_value, max_value, current_percentage,
     target_percentage, absolute_value, stdout >>

\* the transactions invocation i has made, in order
Transactions(i) == SelectSeq(bus, LAMBDA t : t.proc = i)

Terminated(i) == pc[i] \in {"done", "failed"}

----------------------------------------------------------------------------
(* Actions: the steps of main, for invocation i *)

\* the option ignored: the path is always resolved from the focused output
GivenPathIgnored(a) == FALSE

\* whether -i/--i2c-path was given
HasGivenPath(a) == a.i2c_path # NoPath

Fail(i, cause) ==
  /\ pc' = [pc EXCEPT ![i] = "failed"]
  /\ failure' = [failure EXCEPT ![i] = cause]

\* main: `if let Some(i2c_path) = i2c_path_maybe`
UseGivenPath(i) ==
  /\ pc[i] = "start"
  /\ HasGivenPath(args[i])
  /\ i2c_path' = [i2c_path EXCEPT ![i] = args[i].i2c_path]
  /\ pc' = [pc EXCEPT ![i] = "open"]
  /\ UNCHANGED << env, monitor, bus, args, failure, active_output, current_value,
                  max_value, current_percentage, target_percentage,
                  absolute_value, stdout, ipc_calls, fs_log, opened >>

\* get_active_output: the focused output's name; the connection, the query
\* and the search for a focused output are all unwrapped
GetActiveOutput(i) ==
  /\ pc[i] = "start"
  /\ ~HasGivenPath(args[i])
  /\ ipc_calls' = [ipc_calls EXCEPT ![i] = @ + 1]
  /\ \E ok \in BOOLEAN :
       IF ok /\ focused # NoPath
         THEN /\ active_output' = [active_output EXCEPT ![i] = focused]
              /\ pc' = [pc EXCEPT ![i] = "resolve"]
              /\ UNCHANGED failure
         ELSE /\ Fail(i, "sway")
              /\ UNCHANGED active_output
  /\ UNCHANGED << env, monitor, bus, args, i2c_path, current_value, max_value,
                  current_percentage, target_percentage, absolute_value,
                  stdout, fs_log, opened >>

\* main's call of get_i2c_dev_by_output
GetI2cDevByOutput(i) ==
  /\ pc[i] = "resolve"
  /\ LET r == get_i2c_dev_by_output(active_output[i], drm)
     IN  /\ fs_log' = [fs_log EXCEPT ![i] = @ \o r.reads]
         /\ IF r.cause = "none"
              THEN /\ i2c_path' = [i2c_path EXCEPT ![i] = r.path]
                   /\ pc' = [pc EXCEPT ![i] = "open"]
                   /\ UNCHANGED failure
              ELSE /\ Fail(i, r.cause)
                   /\ UNCHANGED i2c_path
  /\ UNCHANGED << env, monitor, bus, args, active_output, current_value,
                  max_value, current_percentage, target_percentage,
                  absolute_value, stdout, ipc_calls, opened >>

\* from_i2c_device(i2c_path).unwrap()
FromI2cDevice(i) ==
  /\ pc[i] = "open"
  /\ \E ok \in BOOLEAN :
       /\ opened' = [opened EXCEPT ![i] = Append(@, [path |-> i2c_path[i], ok |-> ok])]
       /\ IF ok
            THEN pc' = [pc EXCEPT ![i] = "match"] /\ UNCHANGED failure
            ELSE Fail(i, "open")
  /\ UNCHANGED << env, monitor, bus, args, locals, ipc_calls, fs_log >>

\* the get-brightness arm
GetBrightness(i) ==
  /\ pc[i] = "match"
  /\ args[i].subcommand = "get-brightness"
  /\ \E ok \in BOOLEAN :
       /\ bus' = Append(bus, [proc |-> i, op |-> "get",
                              code |-> BRIGHTNESS_VCP_CODE, value |-> 0, ok |-> ok])
       /\ IF ok
            THEN LET cm == value_to_current_and_max(monitor)
                 IN  /\ current_value' = [current_value EXCEPT ![i] = cm[1]]
                     /\ max_value' = [max_value EXCEPT ![i] = cm[2]]
                     /\ stdout' = [stdout EXCEPT ![i] = Append(@, PercentageU16(cm[1], cm[2]))]
                     /\ pc' = [pc EXCEPT ![i] = "done"]
                     /\ UNCHANGED failure
            ELSE /\ Fail(i, "read")
                 /\ UNCHANGED << current_value, max_value, stdout >>
  /\ UNCHANGED << env, monitor, args, active_output, i2c_path, current_percentage,
                  target_percentage, absolute_value, ipc_calls, fs_log, opened >>

\* the set-brightness arm, up to current_percentage
SetRead(i) ==
  /\ pc[i] = "match"
  /\ args[i].subcommand = "set-brightness"
  /\ \E ok \in BOOLEAN :
       /\ bus' = Append(bus, [proc |-> i, op |-> "get",
                              code |-> BRIGHTNESS_VCP_CODE, value |-> 0, ok |-> ok])
       /\ IF ok
            THEN LET cm == value_to_current_and_max(monitor)
                 IN  /\ current_value' = [current_value EXCEPT ![i] = cm[1]]
                     /\ max_value' = [max_value EXCEPT ![i] = cm[2]]
                     /\ current_percentage' =
                          [current_percentage EXCEPT ![i] = PercentageI16(cm[1], cm[2])]
                     /\ pc' = [pc EXCEPT ![i] = "compute"]
                     /\ UNCHANGED failure
            ELSE /\ Fail(i, "read")
                 /\ UNCHANGED << current_value, max_value, current_percentage >>
  /\ UNCHANGED << env, monitor, args, active_output, i2c_path, target_percentage,
                  absolute_value, stdout, ipc_calls, fs_log, opened >>

\* the set-brightness arm: target_percentage and absolute_value
SetCompute(i) ==
  /\ pc[i] = "compute"
  /\ \E overflow_checks \in BOOLEAN :
       LET t == TargetPercentage(args[i].value_str, current_percentage[i],
                                 overflow_checks)
       IN  IF t.ok
             THEN /\ target_percentage' = [target_percentage EXCEPT ![i] = t.v]
                  /\ absolute_value' =
                       [absolute_value EXCEPT ![i] = AbsoluteValue(t.v, max_value[i])]
                  /\ pc' = [pc EXCEPT ![i] = "write"]
                  /\ UNCHANGED failure
             ELSE /\ Fail(i, t.cause)
                  /\ UNCHANGED << target_percentage, absolute_value >>
  /\ UNCHANGED << env, monitor, bus, args, active_output, i2c_path, current_value,
                  max_value, current_percentage, stdout, ipc_calls, fs_log, opened >>

\* the value recomputed from the register as it is when the write is made,
\* as a read-modify-write in one transaction would
WrittenValueReread(i) ==
  LET cm == value_to_current_and_max(monitor)
      t  == TargetPercentage(args[i].value_str, PercentageI16(cm[1], cm[2]), FALSE)
  IN  AbsoluteValue(t.v, cm[2])

\* the value set_vcp_feature is given: the one computed from this
\* invocation's own earlier read
WrittenValue(i) == absolute_value[i]

\* the set-brightness arm: set_vcp_feature(...).unwrap() and the message
SetWrite(i) ==
  /\ pc[i] = "write"
  /\ \E ok \in BOOLEAN :
       /\ bus' = Append(bus, [proc |-> i, op |-> "set", code |-> BRIGHTNESS_VCP_CODE,
                              value |-> WrittenValue(i), ok |-> ok])
       /\ IF ok
            THEN /\ monitor' = [monitor EXCEPT !.sh = WrittenValue(i) \div 256,
                                               !.sl = WrittenValue(i) % 256]
                 /\ stdout' = [stdout EXCEPT ![i] = Append(@, target_percentage[i])]
                 /\ pc' = [pc EXCEPT ![i] = "done"]
                 /\ UNCHANGED failure
            ELSE /\ Fail(i, "write")
                 /\ UNCHANGED << monitor, stdout >>
  /\ UNCHANGED << env, args, active_output, i2c_path, current_value, max_value,
                  current_percentage, target_percentage, absolute_value,
                  ipc_calls, fs_log, opened >>

\* the `_` arm: no subcommand, exit(1)
NoSubcommand(i) ==
  /\ pc[i] = "match"
  /\ args[i].subcommand = "none"
  /\ Fail(i, "no_subcommand")
  /\ UNCHANGED << env, monitor, bus, args, locals, ipc_calls, fs_log, opened >>

----------------------------------------------------------------------------
(* Inputs *)

\* the largest maximum of the monitors enumerated without gaps
MaxMaximum == 40

\* the largest relative change enumerated without gaps
MaxDelta == 12

\* the largest low byte of the registers enumerated byte by byte
MaxLow == 12

RECURSIVE Fmt(_)
\* the decimal digits of a natural number
Fmt(n) ==
  IF n < 10 THEN <<Digits[n + 1]>>
  ELSE Fmt(n \div 10) \o <<Digits[(n % 10) + 1]>>

\* the token of a relative change d
FmtDelta(d) == IF d < 0 THEN <<"-">> \o Fmt(-d) ELSE <<"+">> \o Fmt(d)

eDP1 == <<"e", "D", "P", "-", "1">>

DP1 == <<"D", "P", "-", "1">>

DP3 == <<"D", "P", "-", "3">>

HDMIA1 == <<"H", "D", "M", "I", "-", "A", "-", "1">>

Card0 == <<"c", "a", "r", "d", "0">>

I2c(n) == <<"i", "2", "c", "-">> \o Fmt(n)

Edid == <<"e", "d", "i", "d">>

Ddc == <<"d", "d", "c">>

\* what the compositor may report as focused
FocusedOutputs == {NoPath, eDP1, <<"e", "D", "P">>, DP1, DP3, HDMIA1}

\* targets of a ddc symlink
LinkTargets ==
  { <<".", ".", "/", ".", ".", "/", ".", ".", "/">> \o I2c(5),
    <<".", ".", "/", ".", ".">> }

\* an output directory without any I2C bus
PlainDir ==
  [readable |-> TRUE, children |-> <<Edid>>, ddc |-> "absent", target |-> NoPath,
   i2c_dev |-> FALSE, i2c_dev_entries |-> <<>>]

\* the output directories enumerated: every combination of i2c-N children,
\* kind of ddc entry and content of ddc/i2c-dev that a directory can have
OutDirs ==
  { [readable |-> r,
     children |-> <<Edid>> \o (IF d = "absent" THEN <<>> ELSE <<Ddc>>) \o kids,
     ddc |-> d, target |-> t, i2c_dev |-> n.present, i2c_dev_entries |-> n.entries] :
      r \in BOOLEAN,
      kids \in {<<>>, <<I2c(7)>>, <<I2c(3), I2c(7)>>},
      d \in {"absent", "dir", "link", "dangling"},
      t \in LinkTargets \cup {NoPath},
      n \in { [present |-> FALSE, entries |-> <<>>],
              [present |-> TRUE, entries |-> <<>>],
              [present |-> TRUE, entries |-> <<I2c(9)>>],
              [present |-> TRUE, entries |-> <<I2c(9), I2c(2)>>] } }

\* a directory as the file system can hold it: a link has a target, only an
\* existing ddc has an i2c-dev below it
WellFormedDir(dir) ==
  /\ (dir.target # NoPath) <=> (dir.ddc \in {"link", "dangling"})
  /\ dir.i2c_dev => dir.ddc \in {"dir", "link"}

\* /sys/class/drm with DP-1's directory dir, in either directory order
DrmTrees ==
  UNION { { << [name |-> Card0, dir |-> PlainDir],
               [name |-> Card0 \o <<"-">> \o DP1, dir |-> dir],
               [name |-> Card0 \o <<"-">> \o eDP1, dir |-> PlainDir],
               [name |-> Card0 \o <<"-">> \o HDMIA1, dir |-> PlainDir] >>,
            << [name |-> Card0 \o <<"-">> \o eDP1, dir |-> PlainDir],
               [name |-> Card0 \o <<"-">> \o DP1, dir |-> dir],
               [name |-> Card0, dir |-> PlainDir] >> } :
          dir \in {x \in OutDirs : WellFormedDir(x)} }

\* the register of a monitor at raw value current of maximum
Mon(current, maximum) ==
  [sh |-> current \div 256, sl |-> current % 256,
   mh |-> maximum \div 256, ml |-> maximum % 256]

GivenPath == Dev \o I2c(4)

Invocation(path, subcommand, value_str) ==
  [i2c_path |-> path, subcommand |-> subcommand, value_str |-> value_str]

\* an invocation that is not run
Off == Invocation(NoPath, "none", <<>>)

\* tokens no i16 parses from
JunkTokens ==
  { <<>>, <<"+">>, <<"-">>, <<"a", "b">>, <<"5", "%">>, <<"+", "-", "5">>,
    Fmt(I16_MAX + 1), FmtDelta(I16_MAX + 1), FmtDelta(I16_MIN - 1) }

BlankLocals ==
  /\ bus = <<>>
  /\ failure = [i \in Procs |-> "none"]
  /\ active_output = [i \in Procs |-> NoPath]
  /\ i2c_path = [i \in Procs |-> NoPath]
  /\ current_value = [i \in Procs |-> 0]
  /\ max_value = [i \in Procs |-> 0]
  /\ current_percentage = [i \in Procs |-> 0]
  /\ target_percentage = [i \in Procs |-> 0]
  /\ absolute_value = [i \in Procs |-> 0]
  /\ stdout = [i \in Procs |-> <<>>]
  /\ ipc_calls = [i \in Procs |-> 0]
  /\ fs_log = [i \in Procs |-> <<>>]
  /\ opened = [i \in Procs |-> <<>>]

----------------------------------------------------------------------------
(* Spec: one invocation, from the command line to its end, over every      *)
(* layout of the output directory.                                         *)

Init ==
  /\ focused \in FocusedOutputs
  /\ drm \in DrmTrees
  /\ monitor \in {Mon(32, 64), Mon(10, 0), Mon(50, 100)}
  /\ \E path \in {NoPath, GivenPath} :
     \E cmd \in { <<"get-brightness", <<>> >>, <<"none", <<>> >> }
                \cup { <<"set-brightness", t>> :
                         t \in {Fmt(50), FmtDelta(10), FmtDelta(-20), <<"a", "b">>} } :
       args = [i \in Procs |-> IF i = 1 THEN Invocation(path, cmd[1], cmd[2]) ELSE Off]
  /\ pc = [i \in Procs |-> IF i = 1 THEN "start" ELSE "off"]
  /\ BlankLocals

Next ==
  \E i \in Procs :
    \/ UseGivenPath(i)
    \/ GetActiveOutput(i)
    \/ GetI2cDevByOutput(i)
    \/ FromI2cDevice(i)
    \/ GetBrightness(i)
    \/ SetRead(i)
    \/ SetCompute(i)
    \/ SetWrite(i)
    \/ NoSubcommand(i)

Spec == Init /\ [][Next]_vars

----------------------------------------------------------------------------
(* SpecCodec: one invocation given its device path, over wide ranges of    *)
(* register values and brightness tokens.                                  *)

\* the absolute percentages enumerated as tokens
AbsValues == (0..100) \cup {101, 150, I16_MAX}

\* the relative changes enumerated as tokens
DeltaValues ==
  LET up == (0..MaxDelta) \cup {20, 100, 101, I16_MAX - 100, I16_MAX - 99, I16_MAX}
  IN  up \cup {-d : d \in up} \cup {I16_MIN}

Tokens ==
  {Fmt(p) : p \in AbsValues} \cup {FmtDelta(d) : d \in DeltaValues}
  \cup {<<"-", "0">>} \cup JunkTokens

\* the maxima enumerated
Maxima == (0..MaxMaximum) \cup {50, 64, 100, U8_MAX, U8_MAX + 1, U16_MAX}

\* registers byte by byte
ByteMonitors ==
  [sh : {0, 1, U8_MAX}, sl : (0..MaxLow) \cup {U8_MAX},
   mh : {0, 1, U8_MAX}, ml : (0..MaxLow) \cup {U8_MAX}]

\* registers at every value up to a small maximum
SmallMonitors == {Mon(c, m) : c \in 0..MaxMaximum, m \in 0..MaxMaximum}

\* registers at the ends and the middle of every maximum enumerated
SetMonitors ==
  UNION { {Mon(0, m), Mon(m \div 2, m), Mon(m, m), Mon(U16_MAX, m)} : m \in Maxima }

FixedEnv ==
  /\ focused = DP1
  /\ drm = << [name |-> Card0 \o <<"-">> \o DP1, dir |-> PlainDir] >>

InitCodec ==
  /\ FixedEnv
  /\ \/ /\ monitor \in ByteMonitors \cup SmallMonitors
        /\ args = [i \in Procs |->
                     IF i = 1 THEN Invocation(GivenPath, "get-brightness", <<>>) ELSE Off]
     \/ /\ monitor \in SetMonitors
        /\ \E t \in Tokens :
             args = [i \in Procs |->
                       IF i = 1 THEN Invocation(GivenPath, "set-brightness", t) ELSE Off]
  /\ pc = [i \in Procs |-> IF i = 1 THEN "start" ELSE "off"]
  /\ BlankLocals

NextCodec ==
  \E i \in Procs :
    \/ UseGivenPath(i)
    \/ FromI2cDevice(i)
    \/ GetBrightness(i)
    \/ SetRead(i)
    \/ SetCompute(i)
    \/ SetWrite(i)

SpecCodec == InitCodec /\ [][NextCodec]_vars

----------------------------------------------------------------------------
(* SpecPair: two invocations side by side against the same monitor, each   *)
(* given the device path: a set-brightness and a get-brightness, or two    *)
(* relative set-brightness.                                                *)

\* the monitors of the pairs
PairMaxima == (1..MaxMaximum) \cup {64, 100, U8_MAX, U16_MAX}

\* the relative changes of the racing pairs
RaceDeltas == {10, 12, -20, 60}

InitPair ==
  /\ FixedEnv
  /\ \/ /\ \E m \in PairMaxima : monitor = Mon(0, m)
        /\ \E p \in 0..100 :
             args = [i \in Procs |->
                       IF i = 1 THEN Invocation(GivenPath, "set-brightness", Fmt(p))
                                ELSE Invocation(GivenPath, "get-brightness", <<>>)]
     \/ /\ monitor \in {Mon(32, 64), Mon(50, 100), Mon(95, 100)}
        /\ \E d \in [Procs -> RaceDeltas] :
             args = [i \in Procs |->
                       Invocation(GivenPath, "set-brightness", FmtDelta(d[i]))]
  /\ pc = [i \in Procs |-> "start"]
  /\ BlankLocals

SpecPair == InitPair /\ [][NextCodec]_vars

----------------------------------------------------------------------------
(* Properties *)

Abs(x) == IF x < 0 THEN -x ELSE x

Min(a, b) == IF a < b THEN a ELSE b

Max(a, b) == IF a > b THEN a ELSE b

\* the register's two 16-bit quantities
MonitorCurrent == monitor.sh * 256 + monitor.sl

MonitorMaximum == monitor.mh * 256 + monitor.ml

\* invocation i has read the register
ReadOk(i) == Len(Transactions(i)) >= 1 /\ Transactions(i)[1].ok

\* raw is an integer nearest to p / 100 * maximum
NearestRaw(raw, p, maximum) == Abs(100 * raw - p * maximum) <= 50

\* invocation i is past the computation of its target
Computed(i) == ReadOk(i) /\ args[i].subcommand = "set-brightness" /\ pc[i] # "compute"

\* C1: for a relative token with change d and the current percentage c just
\* read, the addition neither aborts nor wraps, and the target percentage is
\* min(100, max(0, c + d)).
C1_RelativeTargetIsClampedSum ==
  \A i \in Procs : \A d \in DeltaValues :
    (Computed(i) /\ args[i].value_str = FmtDelta(d))
    => /\ failure[i] \in {"none", "write"}
       /\ target_percentage[i] = Min(100, Max(0, current_percentage[i] + d))

\* C2: once the register has been read with maximum 0, the invocation has
\* failed: it prints no percentage and writes nothing.
C2_ZeroMaximumFails ==
  \A i \in Procs :
    (ReadOk(i) /\ MonitorMaximum = 0)
    => /\ pc[i] = "failed"
       /\ stdout[i] = <<>>
       /\ \A k \in DOMAIN Transactions(i) : Transactions(i)[k].op # "set"

\* C3: every raw value a set-brightness writes is round(p / 100 * maximum),
\* an integer nearest to it, for p the absolute token clamped to [0,100] or
\* the current percentage plus the change clamped to [0,100].
C3_WrittenValueIsRoundedShare ==
  \A i \in Procs : \A k \in DOMAIN Transactions(i) :
    LET t == Transactions(i)[k]
    IN  (t.op = "set" /\ t.ok)
        => /\ \A n \in AbsValues :
                args[i].value_str = Fmt(n)
                => NearestRaw(t.value, Min(100, Max(0, n)), MonitorMaximum)
           /\ \A d \in DeltaValues :
                args[i].value_str = FmtDelta(d)
                => NearestRaw(t.value,
                              Min(100, Max(0, current_percentage[i] + d)),
                              MonitorMaximum)

\* invocation 1 has set the absolute percentage p and invocation 2 has then
\* read the brightness back
RoundTrip(p) ==
  /\ args[1] = Invocation(GivenPath, "set-brightness", Fmt(p))
  /\ args[2].subcommand = "get-brightness"
  /\ Len(bus) = 3
  /\ bus[2].op = "set" /\ bus[2].ok
  /\ bus[3].proc = 2 /\ bus[3].ok

\* C4 as stated: for every p in [0,100] and every maximum > 0, the
\* percentage read back after writing p is within 1 of p.
C4_RoundTripWithinOne ==
  \A p \in 0..100 :
    (RoundTrip(p) /\ MonitorMaximum > 0) => (Len(stdout[2]) = 1 /\ Abs(stdout[2][1] - p) <= 1)

\* C4 amended: for every p in [0,100] and every maximum >= 34, the
\* percentage read back after writing p is within 1 of p.
C4_RoundTripWithinOneFrom34 ==
  \A p \in 0..100 :
    (RoundTrip(p) /\ MonitorMaximum >= 34) => (Len(stdout[2]) = 1 /\ Abs(stdout[2][1] - p) <= 1)

C4_Witness ==
  RoundTrip(47) /\ MonitorMaximum = 34 /\ MonitorCurrent = 16 /\ stdout[2] = <<47>>

\* invocation i resolved its device from the output directory dir
ResolvedIn(i) ==
  /\ args[i].i2c_path = NoPath
  /\ pc[i] \notin {"off", "start", "resolve"}
  /\ failure[i] \notin {"sway", "edp", "no_output"}

\* C5: the resolver returns the path of the first strategy that succeeds, in
\* the order i2c-N child, ddc symlink, ddc/i2c-dev; with an i2c-7 child and
\* a ddc/i2c-dev entry the result is /dev/i2c-7.
C5_FirstStrategyWins ==
  \A i \in Procs :
    ResolvedIn(i)
    => LET dir == drm[FindOutputPath(drm, active_output[i])].dir
           a == AmdSubdirectory(dir)
           b == AmdSymlink(dir)
           c == IntelNested(dir)
       IN  /\ a # NoPath => i2c_path[i] = a
           /\ (a = NoPath /\ b # NoPath) => i2c_path[i] = b
           /\ (a = NoPath /\ b = NoPath /\ c # NoPath) => i2c_path[i] = c
           /\ (a = NoPath /\ b = NoPath /\ c = NoPath) => failure[i] = "no_device"
           /\ (dir.readable /\ dir.children = <<Edid, Ddc, I2c(7)>>
                 /\ dir.i2c_dev /\ dir.i2c_dev_entries # <<>>)
              => i2c_path[i] = <<"/", "d", "e", "v", "/", "i", "2", "c", "-", "7">>

C5_Witness ==
  /\ ResolvedIn(1)
  /\ LET dir == drm[FindOutputPath(drm, active_output[1])].dir
     IN  /\ dir.readable /\ dir.children = <<Edid, Ddc, I2c(7)>>
         /\ dir.ddc = "dir" /\ dir.i2c_dev_entries = <<I2c(9)>>
  /\ i2c_path[1] = <<"/", "d", "e", "v", "/", "i", "2", "c", "-", "7">>
  /\ pc[1] = "done"

\* C6: an invocation told to resolve an output whose name begins with eDP
\* fails as unsupported without any sysfs access, opens no device and makes
\* no transaction.
C6_EmbeddedRejectedUntouched ==
  \A i \in Procs :
    (args[i].i2c_path = NoPath /\ pc[i] \notin {"off", "start", "resolve"}
       /\ Len(active_output[i]) >= 3
       /\ SubSeq(active_output[i], 1, 3) = <<"e", "D", "P">>)
    => /\ pc[i] = "failed" /\ failure[i] = "edp"
       /\ fs_log[i] = <<>>
       /\ opened[i] = <<>>
       /\ Transactions(i) = <<>>

C6_Witness ==
  /\ active_output[1] = eDP1 /\ failure[1] = "edp" /\ fs_log[1] = <<>>
  /\ args[1].subcommand = "set-brightness"

\* C7: with a device path given, the active output is not queried, sysfs is
\* not read, and the only device opened is the given path, whatever output
\* is focused.
C7_GivenPathBypassesResolution ==
  \A i \in Procs :
    args[i].i2c_path # NoPath
    => /\ ipc_calls[i] = 0
       /\ fs_log[i] = <<>>
       /\ active_output[i] = NoPath
       /\ pc[i] \notin {"resolve"}
       /\ \A k \in DOMAIN opened[i] : opened[i][k].path = args[i].i2c_path
       /\ pc[i] \in {"match", "compute", "write", "done"}
            => opened[i] = << [path |-> args[i].i2c_path, ok |-> TRUE] >>

C7_Witness ==
  /\ focused = eDP1 /\ args[1].i2c_path = GivenPath
  /\ pc[1] = "done" /\ opened[1] = << [path |-> GivenPath, ok |-> TRUE] >>

\* C8: for a register with maximum > 0 and current <= maximum, the
\* percentage get-brightness prints is round(current / maximum * 100), an
\* integer nearest to it, and lies in [0,100].
C8_PercentageInRange ==
  \A i \in Procs :
    (args[i].subcommand = "get-brightness" /\ pc[i] = "done"
       /\ MonitorMaximum > 0 /\ MonitorCurrent <= MonitorMaximum)
    => /\ Len(stdout[i]) = 1
       /\ stdout[i][1] \in 0..100
       /\ 2 * Abs(stdout[i][1] * MonitorMaximum - 100 * MonitorCurrent)
            <= MonitorMaximum

C8_Witness ==
  /\ pc[1] = "done" /\ args[1].subcommand = "get-brightness"
  /\ monitor = [sh |-> 0, sl |-> U8_MAX, mh |-> 1, ml |-> U8_MAX]
  /\ stdout[1] = <<50>>

\* the transactions of invocation i are a read, then at most one write, made
\* on its one open connection; the write follows a successful read and a
\* token that parses; a failed call is the invocation's last
TransactionsInOrder(i) ==
  LET tx == Transactions(i)
  IN  /\ Len(tx) <= 2
      /\ tx # <<>> => (Len(opened[i]) = 1 /\ opened[i][1].ok /\ tx[1].op = "get")
      /\ Len(tx) = 2
           => /\ tx[2].op = "set" /\ tx[1].ok
              /\ args[i].subcommand = "set-brightness"
              /\ args[i].value_str \notin JunkTokens
      /\ \A k \in DOMAIN tx : ~tx[k].ok => (k = Len(tx) /\ pc[i] = "failed")
      /\ \A k \in DOMAIN opened[i] : ~opened[i][k].ok => (tx = <<>> /\ pc[i] = "failed")
      /\ failure[i] # "none" => pc[i] = "failed"

\* an invocation that has ended opens nothing more and makes no transaction
EndedStaysEnded ==
  \A i \in Procs :
    Terminated(i)
    => /\ pc'[i] = pc[i]
       /\ opened'[i] = opened[i]
       /\ SelectSeq(bus', LAMBDA t : t.proc = i) = Transactions(i)

\* C9 as stated: every invocation that has ended opened exactly one I2C
\* connection, and its transactions are a read then at most one write.
C9_ExactlyOneConnection ==
  \A i \in Procs :
    Terminated(i) => (Len(opened[i]) = 1 /\ TransactionsInOrder(i))

\* C9 amended: every invocation opens at most one I2C connection (none when
\* the output query or the resolution fails first), and its transactions
\* are a read then at most one write, a failure ending it at once.
C9_AtMostOneConnection ==
  /\ [](\A i \in Procs : Len(opened[i]) <= 1 /\ TransactionsInOrder(i))
  /\ [][EndedStaysEnded]_vars

C9_Witness ==
  /\ pc[1] = "done" /\ args[1].i2c_path = NoPath
  /\ Len(opened[1]) = 1 /\ Len(Transactions(1)) = 2
  /\ Transactions(1)[2].op = "set" /\ Transactions(1)[2].value = 38

\* both invocations read the register before either wrote it, and both wrote
BothReadBeforeEitherWrote ==
  /\ Len(bus) = 4
  /\ \A k \in 1..4 : bus[k].ok
  /\ bus[1].op = "get" /\ bus[2].op = "get"
  /\ bus[3].op = "set" /\ bus[4].op = "set"

\* C10: nothing orders two invocations: when both relative set-brightness
\* read before either writes, both computed from the same value and the
\* register ends at the later writer's value, which reflects that writer's
\* change alone.
C10_LostUpdate ==
  \A d1, d2 \in RaceDeltas :
    (BothReadBeforeEitherWrote
       /\ args[1].value_str = FmtDelta(d1) /\ args[2].value_str = FmtDelta(d2))
    => LET last == bus[4].proc
           d == IF last = 1 THEN d1 ELSE d2
       IN  /\ current_value[1] = current_value[2]
           /\ current_percentage[1] = current_percentage[2]
           /\ MonitorCurrent = bus[4].value
           /\ NearestRaw(MonitorCurrent,
                         Min(100, Max(0, current_percentage[last] + d)),
                         MonitorMaximum)

\* the lost update: from 50% of 64, two changes of +10 leave the register
\* at 60% (38), not at 70% (45)
C10_Witness ==
  /\ BothReadBeforeEitherWrote
  /\ args[1].value_str = FmtDelta(10) /\ args[2].value_str = FmtDelta(10)
  /\ MonitorMaximum = 64 /\ current_value[1] = 32 /\ current_value[2] = 32
  /\ MonitorCurrent = 38
  /\ ~NearestRaw(MonitorCurrent, 70, MonitorMaximum)

====
